---------------------------- MODULE Spec2Model ----------------------------
(***************************************************************************)
(* Model of sql_inserts.py: a generator of synthetic rows (customers,      *)
(* products, orders, order items, payments, shipments) and a formatter     *)
(* that renders rows as one SQL INSERT statement.                          *)
(*                                                                         *)
(* A Python str is a sequence of one-character strings.  A scalar value is *)
(* a record [t, n, s]: t is the Python type, n the number (an int, or a    *)
(* float held in hundredths: every float of the program is                 *)
(* round(k / 100, 2)), s the characters of a str.  The random generator    *)
(* and the Faker instance are state: each holds the stream of raw draws    *)
(* still to come.                                                          *)
(***************************************************************************)
EXTENDS Integers, Sequences, FiniteSets, TLC

(* ------------------------------ bounds -------------------------------- *)
MaxN == 2          \* largest count n passed to a generator called on its own
MaxLen == 2        \* longest id list passed to a generator called on its own
MaxRows == 2       \* longest row sequence passed to create_sql_insert on its own
RawMax == 2        \* a raw draw is 0..RawMax (0 maps to the low end, RawMax to the high end)
TapeLen == 3       \* length of the cyclic stream of raw draws

(* --------------------------- program constants ------------------------ *)
num_customers == 10
num_products == 8
num_orders == 15

(* ------------------------------ values -------------------------------- *)
PyInt(k) == [t |-> "int", n |-> k, s |-> <<>>]
PyFloat(k) == [t |-> "float", n |-> k, s |-> <<>>]
PyStr(chars) == [t |-> "str", n |-> 0, s |-> chars]

NoError == "none"
IndexError == "IndexError"

(* ----------------------- random and Faker streams --------------------- *)
Tapes == [1..TapeLen -> 0..RawMax]

\* the stream after one draw
Rotate(t) == Tail(t) \o <<Head(t)>>

RECURSIVE RotateN(_, _)
RotateN(t, k) == IF k = 0 THEN t ELSE RotateN(Rotate(t), k - 1)

\* random.randint(a, b): an integer of a..b, decided by the next raw draw
randint(t, a, b) == a + (Head(t) * (b - a)) \div RawMax

\* random.choice(seq) on a non-empty seq: one of its elements
choice(t, seq) == seq[1 + (Head(t) * (Len(seq) - 1)) \div RawMax]

\* random.choice raises IndexError on an empty sequence
choice_raises(seq) == Len(seq) = 0

\* range(1, k + 1) as a list
range1(k) == [i \in 1..k |-> i]

\* the Faker instance: its state is the next raw draw
faker_next(f) == (f + 1) % (RawMax + 1)
faker_pick(f, samples) == samples[1 + (f * (Len(samples) - 1)) \div RawMax]

first_names == << <<"A", "n", "n">>, <<"B", "o">> >>
last_names == << <<"L", "e", "e">>, <<"O", "'", "H", "a", "r", "a">> >>
emails == << <<"a", "n", "n", "@", "x", ".", "o", "r", "g">>, <<"b", "o", "@", "y", ".", "c", "o", "m">> >>
phone_numbers == << <<"5", "5", "5", "-", "0", "1", "0", "0">>, <<"(", "5", "5", "5", ")", "0", "1", "9", "9", "x", "1", "2">> >>
ecommerce_names == << <<"C", "h", "a", "i", "r">>, <<"S", "o", "a", "p">> >>
texts == << <<"G", "o", "o", "d", " ", "i", "t", "e", "m", ".">>, <<"W", "h", "y", " ", "n", "o", "t", ".">> >>
addresses == << <<"1", " ", "E", "l", "m", " ", "S", "t", "\n", "A", "d", "a", ",", " ", "O", "K", " ", "7", "4", "8", "2", "0">>, <<"P", "S", "C", " ", "2", "\n", "A", "P", "O", " ", "A", "E", " ", "0", "9">> >>

\* str.replace(old, new) for a one-character old
RECURSIVE replace(_, _, _)
replace(s, old, new) ==
    IF s = <<>> THEN <<>>
    ELSE (IF Head(s) = old THEN new ELSE <<Head(s)>>) \o replace(Tail(s), old, new)

(* ------------------------------ Generator ----------------------------- *)
\* one customer: four Faker calls
customer_row(f) ==
    << PyStr(faker_pick(f, first_names)),
       PyStr(faker_pick(faker_next(f), last_names)),
       PyStr(faker_pick(faker_next(faker_next(f)), emails)),
       PyStr(faker_pick(faker_next(faker_next(faker_next(f))), phone_numbers)) >>

RECURSIVE get_customers(_, _)
get_customers(k, f) ==
    IF k = 0 THEN [rows |-> <<>>, fk |-> f]
    ELSE LET rest == get_customers(k - 1, faker_next(faker_next(faker_next(faker_next(f)))))
         IN  [rows |-> <<customer_row(f)>> \o rest.rows, fk |-> rest.fk]

\* mutant: the stock quantity may be 0
product_row_stock0(t, f) ==
    << PyStr(faker_pick(f, ecommerce_names)), PyStr(faker_pick(faker_next(f), texts)),
       PyFloat(randint(t, 100, 9999)), PyInt(randint(Rotate(t), 0, 20)) >>

\* one product: two Faker calls, then two draws
product_row(t, f) ==
    << PyStr(faker_pick(f, ecommerce_names)), PyStr(faker_pick(faker_next(f), texts)),
       PyFloat(randint(t, 100, 9999)), PyInt(randint(Rotate(t), 1, 20)) >>

\* mutant: range(n + 1)
RECURSIVE get_products_one_more(_, _, _)
get_products_one_more(k, t, f) ==
    LET rest == IF k = 0 THEN [rows |-> <<>>, rng |-> RotateN(t, 2), fk |-> faker_next(faker_next(f))]
                ELSE get_products_one_more(k - 1, RotateN(t, 2), faker_next(faker_next(f)))
    IN  [rows |-> <<product_row(t, f)>> \o rest.rows, rng |-> rest.rng, fk |-> rest.fk]

RECURSIVE get_products(_, _, _)
get_products(k, t, f) ==
    IF k = 0 THEN [rows |-> <<>>, rng |-> t, fk |-> f]
    ELSE LET rest == get_products(k - 1, RotateN(t, 2), faker_next(faker_next(f)))
         IN  [rows |-> <<product_row(t, f)>> \o rest.rows, rng |-> rest.rng, fk |-> rest.fk]

\* mutant: a position of customer_ids, counted from 0, in place of one of its elements
order_row_index(t, cids) == << PyInt(randint(t, 0, Len(cids) - 1)), PyStr(<<"p", "e", "n", "d", "i", "n", "g">>) >>

\* one order
order_row(t, cids) == << PyInt(choice(t, cids)), PyStr(<<"p", "e", "n", "d", "i", "n", "g">>) >>

\* mutant: the customer is chosen before the loop, so an empty customer_ids raises for n = 0 too
RECURSIVE get_orders_eager(_, _, _)
get_orders_eager(k, cids, t) ==
    IF choice_raises(cids) THEN [rows |-> <<>>, rng |-> t, raised |-> IndexError]
    ELSE IF k = 0 THEN [rows |-> <<>>, rng |-> t, raised |-> NoError]
    ELSE LET rest == get_orders_eager(k - 1, cids, Rotate(t))
         IN  [rows |-> <<order_row(t, cids)>> \o rest.rows, rng |-> rest.rng,
              raised |-> rest.raised]

\* the comprehension draws a customer per row: with n > 0 and no customer the
\* first choice raises
RECURSIVE get_orders(_, _, _)
get_orders(k, cids, t) ==
    IF k = 0 THEN [rows |-> <<>>, rng |-> t, raised |-> NoError]
    ELSE IF choice_raises(cids) THEN [rows |-> <<>>, rng |-> t, raised |-> IndexError]
    ELSE LET rest == get_orders(k - 1, cids, Rotate(t))
         IN  [rows |-> <<order_row(t, cids)>> \o rest.rows, rng |-> rest.rng,
              raised |-> rest.raised]

\* mutant: randint(0, 3)
order_item_count_from0(t) == randint(t, 0, 3)

\* the number of items of one order
order_item_count(t) == randint(t, 1, 3)

\* one order item: three draws
order_item_row(order_id, pids, t) ==
    << PyInt(order_id), PyInt(choice(t, pids)),
       PyInt(randint(Rotate(t), 1, 5)), PyFloat(randint(RotateN(t, 2), 500, 2000)) >>

\* the inner loop of get_order_items: k items of one order
RECURSIVE order_items_of(_, _, _, _)
order_items_of(order_id, pids, k, t) ==
    IF k = 0 THEN [rows |-> <<>>, rng |-> t]
    ELSE LET rest == order_items_of(order_id, pids, k - 1, RotateN(t, 3))
         IN  [rows |-> <<order_item_row(order_id, pids, t)>> \o rest.rows, rng |-> rest.rng]

\* the outer loop: the count is drawn first, then the first choice raises when
\* there is no product
RECURSIVE get_order_items(_, _, _)
get_order_items(oids, pids, t) ==
    IF oids = <<>> THEN [rows |-> <<>>, rng |-> t, raised |-> NoError]
    ELSE IF choice_raises(pids) THEN [rows |-> <<>>, rng |-> Rotate(t), raised |-> IndexError]
    ELSE LET items == order_items_of(Head(oids), pids, order_item_count(t), Rotate(t))
             rest == get_order_items(Tail(oids), pids, items.rng)
         IN  [rows |-> items.rows \o rest.rows, rng |-> rest.rng, raised |-> rest.raised]

payment_methods == << <<"c", "r", "e", "d", "i", "t", "_", "c", "a", "r", "d">>, <<"p", "a", "y", "p", "a", "l">>, <<"b", "a", "n", "k", "_", "t", "r", "a", "n", "s", "f", "e", "r">> >>

\* mutant: the id that follows the order's
payment_row_next_id(order_id, t) ==
    << PyInt(order_id + 1), PyFloat(randint(t, 1000, 5000)),
       PyStr(choice(Rotate(t), payment_methods)), PyStr(<<"c", "o", "m", "p", "l", "e", "t", "e", "d">>) >>

\* one payment: two draws
payment_row(order_id, t) ==
    << PyInt(order_id), PyFloat(randint(t, 1000, 5000)),
       PyStr(choice(Rotate(t), payment_methods)), PyStr(<<"c", "o", "m", "p", "l", "e", "t", "e", "d">>) >>

RECURSIVE get_payments(_, _)
get_payments(oids, t) ==
    IF oids = <<>> THEN [rows |-> <<>>, rng |-> t]
    ELSE LET rest == get_payments(Tail(oids), RotateN(t, 2))
         IN  [rows |-> <<payment_row(Head(oids), t)>> \o rest.rows, rng |-> rest.rng]

shipment_statuses == << <<"p", "r", "o", "c", "e", "s", "s", "i", "n", "g">>, <<"s", "h", "i", "p", "p", "e", "d">>, <<"d", "e", "l", "i", "v", "e", "r", "e", "d">> >>

\* one shipment: one Faker call, one draw
shipment_row(order_id, t, f) ==
    << PyInt(order_id),
       PyStr(replace(faker_pick(f, addresses), "\n", <<",", " ">>)),
       PyStr(choice(t, shipment_statuses)) >>

RECURSIVE get_shipments(_, _, _)
get_shipments(oids, t, f) ==
    IF oids = <<>> THEN [rows |-> <<>>, rng |-> t, fk |-> f]
    ELSE LET rest == get_shipments(Tail(oids), Rotate(t), faker_next(f))
         IN  [rows |-> <<shipment_row(Head(oids), t, f)>> \o rest.rows,
              rng |-> rest.rng, fk |-> rest.fk]

(* ------------------------------ Formatter ----------------------------- *)
Digits == <<"0", "1", "2", "3", "4", "5", "6", "7", "8", "9">>

\* repr of a non-negative int
RECURSIVE int_repr(_)
int_repr(k) == IF k < 10 THEN <<Digits[k + 1]>> ELSE int_repr(k \div 10) \o <<Digits[(k % 10) + 1]>>

\* repr of the float round(k / 100, 2): the shortest decimal that reads back
float_repr(k) ==
    int_repr(k \div 100) \o <<".">> \o
    (IF k % 100 = 0 THEN <<"0">>
     ELSE IF k % 10 = 0 THEN <<Digits[((k % 100) \div 10) + 1]>>
     ELSE <<Digits[((k % 100) \div 10) + 1], Digits[(k % 10) + 1]>>)

Has(s, c) == \E i \in 1..Len(s) : s[i] = c

\* repr of a str picks the quote: double quotes only when the text holds a
\* single quote and no double quote
repr_quote(s) == IF Has(s, "'") /\ ~Has(s, "\"") THEN "\"" ELSE "'"

\* repr of a str escapes the backslash, the chosen quote and the newline
repr_char(c, q) ==
    IF c = "\\" THEN <<"\\", "\\">>
    ELSE IF c = q THEN <<"\\", q>>
    ELSE IF c = "\n" THEN <<"\\", "n">>
    ELSE <<c>>

RECURSIVE repr_body(_, _)
repr_body(s, q) == IF s = <<>> THEN <<>> ELSE repr_char(Head(s), q) \o repr_body(Tail(s), q)

str_repr(s) == <<repr_quote(s)>> \o repr_body(s, repr_quote(s)) \o <<repr_quote(s)>>

repr(val) ==
    IF val.t = "int" THEN int_repr(val.n)
    ELSE IF val.t = "float" THEN float_repr(val.n)
    ELSE str_repr(val.s)

\* sep.join(parts)
RECURSIVE join(_, _)
join(sep, parts) ==
    IF parts = <<>> THEN <<>>
    ELSE IF Len(parts) = 1 THEN parts[1]
    ELSE parts[1] \o sep \o join(sep, Tail(parts))

\* f"({', '.join(repr(val) for val in row)})"
row_str(row) == <<"(">> \o join(<<",", " ">>, [i \in 1..Len(row) |-> repr(row[i])]) \o <<")">>

\* mutant: the groups are joined with ", "
create_sql_insert_one_line(tbl, cols, vals) ==
    LET value_str == join(<<",", " ">>, [i \in 1..Len(vals) |-> row_str(vals[i])])
    IN  <<"I", "N", "S", "E", "R", "T", " ", "I", "N", "T", "O", " ">> \o tbl \o <<" ", "(">> \o cols \o <<")", " ", "V", "A", "L", "U", "E", "S", "\n", " ", " ">> \o value_str \o <<";">>

\* mutant: no statement for no rows
create_sql_insert_guarded(tbl, cols, vals) ==
    IF vals = <<>> THEN <<>>
    ELSE LET value_str == join(<<",", "\n", " ", " ">>, [i \in 1..Len(vals) |-> row_str(vals[i])])
         IN  <<"I", "N", "S", "E", "R", "T", " ", "I", "N", "T", "O", " ">> \o tbl \o <<" ", "(">> \o cols \o <<")", " ", "V", "A", "L", "U", "E", "S", "\n", " ", " ">> \o value_str \o <<";">>

create_sql_insert(tbl, cols, vals) ==
    LET value_str == join(<<",", "\n", " ", " ">>, [i \in 1..Len(vals) |-> row_str(vals[i])])
    IN  <<"I", "N", "S", "E", "R", "T", " ", "I", "N", "T", "O", " ">> \o tbl \o <<" ", "(">> \o cols \o <<")", " ", "V", "A", "L", "U", "E", "S", "\n", " ", " ">> \o value_str \o <<";">>

(* -------------------------------- state ------------------------------- *)
VARIABLES
    pc,            \* "call" / "returned" / "raised" for one call; a line of main; "exit"
    fn,            \* the function under call, or "main"
    n,             \* argument n
    customer_ids, product_ids, order_ids,     \* id lists: arguments, or main's locals
    table, columns, values,                   \* arguments of create_sql_insert
    rows,          \* the list a generator returned
    text,          \* the str create_sql_insert returned
    raised,        \* the exception that ended the call
    rng,           \* random's generator
    fk,            \* the Faker instance
    customers, products, orders, order_items, payments, shipments,   \* main's locals
    out            \* standard output: the arguments of the print calls so far

vars == << pc, fn, n, customer_ids, product_ids, order_ids, table, columns, values,
           rows, text, raised, rng, fk,
           customers, products, orders, order_items, payments, shipments, out >>

args == << fn, n, customer_ids, product_ids, order_ids, table, columns, values >>
locals == << customers, products, orders, order_items, payments, shipments, out >>

(* ------------------------------- inputs ------------------------------- *)
\* the ids of the lists passed to a generator called on its own
IdPool == {3, 7}

IdLists == UNION { [1..k -> IdPool] : k \in 0..MaxLen }

ValPool == { PyInt(1), PyFloat(1250), PyStr(<<"x">>), PyStr(<<"i", "t", "'", "s">>), PyStr(<<"'", "\"", "\\", "\n">>) }

RowPool == UNION { [1..k -> ValPool] : k \in 1..2 }

RowLists == UNION { [1..k -> RowPool] : k \in 0..MaxRows }

TableColumns == { << <<"t">>, <<"a", ",", " ", "b">> >>, << <<"o", "r", "d", "e", "r", "s">>, <<"c", "u", "s", "t", "o", "m", "e", "r", "_", "i", "d", ",", " ", "s", "t", "a", "t", "u", "s">> >> }

NoLocals ==
    /\ customers = <<>> /\ products = <<>> /\ orders = <<>> /\ order_items = <<>>
    /\ payments = <<>> /\ shipments = <<>> /\ out = <<>>

NoResult == rows = <<>> /\ text = <<>> /\ raised = NoError

NoSqlArgs == table = <<>> /\ columns = <<>> /\ values = <<>>

\* one call of a generator or of the formatter, on arguments of the bounded sets
InitCall ==
    /\ pc = "call"
    /\ NoLocals /\ NoResult
    /\ \/ /\ fn = "get_customers" /\ n \in 0..MaxN /\ fk \in 0..RawMax
          /\ rng = [i \in 1..TapeLen |-> 0]
          /\ customer_ids = <<>> /\ product_ids = <<>> /\ order_ids = <<>> /\ NoSqlArgs
       \/ /\ fn = "get_products" /\ n \in 0..MaxN /\ fk \in 0..RawMax /\ rng \in Tapes
          /\ customer_ids = <<>> /\ product_ids = <<>> /\ order_ids = <<>> /\ NoSqlArgs
       \/ /\ fn = "get_orders" /\ n \in 0..MaxN /\ customer_ids \in IdLists
          /\ rng \in Tapes /\ fk = 0
          /\ product_ids = <<>> /\ order_ids = <<>> /\ NoSqlArgs
       \/ /\ fn = "get_order_items" /\ order_ids \in IdLists /\ product_ids \in IdLists
          /\ rng \in Tapes /\ fk = 0
          /\ n = 0 /\ customer_ids = <<>> /\ NoSqlArgs
       \/ /\ fn = "get_payments" /\ order_ids \in IdLists /\ rng \in Tapes /\ fk = 0
          /\ n = 0 /\ customer_ids = <<>> /\ product_ids = <<>> /\ NoSqlArgs
       \/ /\ fn = "get_shipments" /\ order_ids \in IdLists /\ rng \in Tapes
          /\ fk \in 0..RawMax
          /\ n = 0 /\ customer_ids = <<>> /\ product_ids = <<>> /\ NoSqlArgs
       \/ /\ fn = "create_sql_insert"
          /\ \E tc \in TableColumns : table = tc[1] /\ columns = tc[2]
          /\ values \in RowLists
          /\ rng = [i \in 1..TapeLen |-> 0] /\ fk = 0
          /\ n = 0 /\ customer_ids = <<>> /\ product_ids = <<>> /\ order_ids = <<>>

\* one run of the script
InitMain ==
    /\ pc = "l57" /\ fn = "main"
    /\ rng \in Tapes /\ fk \in 0..RawMax
    /\ n = 0 /\ customer_ids = <<>> /\ product_ids = <<>> /\ order_ids = <<>>
    /\ NoSqlArgs /\ NoResult /\ NoLocals

Init == InitCall \/ InitMain

(* ------------------------ calls of one function ----------------------- *)
call_get_customers ==
    /\ pc = "call" /\ fn = "get_customers"
    /\ LET r == get_customers(n, fk)
       IN  rows' = r.rows /\ fk' = r.fk
    /\ pc' = "returned"
    /\ UNCHANGED << args, text, raised, rng, locals >>

call_get_products ==
    /\ pc = "call" /\ fn = "get_products"
    /\ LET r == get_products(n, rng, fk)
       IN  rows' = r.rows /\ rng' = r.rng /\ fk' = r.fk
    /\ pc' = "returned"
    /\ UNCHANGED << args, text, raised, locals >>

call_get_orders ==
    /\ pc = "call" /\ fn = "get_orders"
    /\ LET r == get_orders(n, customer_ids, rng)
       IN  /\ raised' = r.raised /\ rng' = r.rng
           /\ rows' = IF r.raised = NoError THEN r.rows ELSE <<>>
           /\ pc' = IF r.raised = NoError THEN "returned" ELSE "raised"
    /\ UNCHANGED << args, text, fk, locals >>

call_get_order_items ==
    /\ pc = "call" /\ fn = "get_order_items"
    /\ LET r == get_order_items(order_ids, product_ids, rng)
       IN  /\ raised' = r.raised /\ rng' = r.rng
           /\ rows' = IF r.raised = NoError THEN r.rows ELSE <<>>
           /\ pc' = IF r.raised = NoError THEN "returned" ELSE "raised"
    /\ UNCHANGED << args, text, fk, locals >>

call_get_payments ==
    /\ pc = "call" /\ fn = "get_payments"
    /\ LET r == get_payments(order_ids, rng)
       IN  rows' = r.rows /\ rng' = r.rng
    /\ pc' = "returned"
    /\ UNCHANGED << args, text, raised, fk, locals >>

call_get_shipments ==
    /\ pc = "call" /\ fn = "get_shipments"
    /\ LET r == get_shipments(order_ids, rng, fk)
       IN  rows' = r.rows /\ rng' = r.rng /\ fk' = r.fk
    /\ pc' = "returned"
    /\ UNCHANGED << args, text, raised, locals >>

call_create_sql_insert ==
    /\ pc = "call" /\ fn = "create_sql_insert"
    /\ text' = create_sql_insert(table, columns, values)
    /\ pc' = "returned"
    /\ UNCHANGED << args, rows, raised, rng, fk, locals >>

(* --------------------------------- main ------------------------------- *)
\* print(x): one more write to standard output
print(o, x) == Append(o, x)

main_customers ==
    /\ pc = "l57"
    /\ LET r == get_customers(num_customers, fk)
       IN  customers' = r.rows /\ fk' = r.fk
    /\ pc' = "l58"
    /\ UNCHANGED << args, rows, text, raised, rng,
                    products, orders, order_items, payments, shipments, out >>

main_products ==
    /\ pc = "l58"
    /\ LET r == get_products(num_products, rng, fk)
       IN  products' = r.rows /\ rng' = r.rng /\ fk' = r.fk
    /\ pc' = "l61"
    /\ UNCHANGED << fn, n, customer_ids, product_ids, order_ids, table, columns, values,
                    rows, text, raised,
                    customers, orders, order_items, payments, shipments, out >>

main_ids ==
    /\ pc = "l61"
    /\ customer_ids' = range1(num_customers)
    /\ product_ids' = range1(num_products)
    /\ order_ids' = range1(num_orders)
    /\ pc' = "l65"
    /\ UNCHANGED << fn, n, table, columns, values, rows, text, raised, rng, fk, locals >>

main_orders ==
    /\ pc = "l65"
    /\ LET r == get_orders(num_orders, customer_ids, rng)
       IN  /\ raised' = r.raised /\ rng' = r.rng
           /\ orders' = IF r.raised = NoError THEN r.rows ELSE orders
           /\ pc' = IF r.raised = NoError THEN "l66" ELSE "raised"
    /\ UNCHANGED << args, rows, text, fk,
                    customers, products, order_items, payments, shipments, out >>

main_order_items ==
    /\ pc = "l66"
    /\ LET r == get_order_items(order_ids, product_ids, rng)
       IN  /\ raised' = r.raised /\ rng' = r.rng
           /\ order_items' = IF r.raised = NoError THEN r.rows ELSE order_items
           /\ pc' = IF r.raised = NoError THEN "l67" ELSE "raised"
    /\ UNCHANGED << args, rows, text, fk,
                    customers, products, orders, payments, shipments, out >>

main_payments ==
    /\ pc = "l67"
    /\ LET r == get_payments(order_ids, rng)
       IN  payments' = r.rows /\ rng' = r.rng
    /\ pc' = "l68"
    /\ UNCHANGED << args, rows, text, raised, fk,
                    customers, products, orders, order_items, shipments, out >>

main_shipments ==
    /\ pc = "l68"
    /\ LET r == get_shipments(order_ids, rng, fk)
       IN  shipments' = r.rows /\ rng' = r.rng /\ fk' = r.fk
    /\ pc' = "l71"
    /\ UNCHANGED << args, rows, text, raised,
                    customers, products, orders, order_items, payments, out >>

print_customers ==
    /\ pc = "l71"
    /\ out' = print(print(out, <<"-", "-", " ", "I", "n", "s", "e", "r", "t", "i", "o", "n", " ", "d", "e", "s", " ", "c", "l", "i", "e", "n", "t", "s">>),
                    create_sql_insert(<<"c", "u", "s", "t", "o", "m", "e", "r", "s">>,
                        <<"f", "i", "r", "s", "t", "_", "n", "a", "m", "e", ",", " ", "l", "a", "s", "t", "_", "n", "a", "m", "e", ",", " ", "e", "m", "a", "i", "l", ",", " ", "p", "h", "o", "n", "e">>, customers))
    /\ pc' = "l74"
    /\ UNCHANGED << args, rows, text, raised, rng, fk,
                    customers, products, orders, order_items, payments, shipments >>

print_products ==
    /\ pc = "l74"
    /\ out' = print(print(out, <<"\n", "-", "-", " ", "I", "n", "s", "e", "r", "t", "i", "o", "n", " ", "d", "e", "s", " ", "p", "r", "o", "d", "u", "i", "t", "s">>),
                    create_sql_insert(<<"p", "r", "o", "d", "u", "c", "t", "s">>,
                        <<"n", "a", "m", "e", ",", " ", "d", "e", "s", "c", "r", "i", "p", "t", "i", "o", "n", ",", " ", "p", "r", "i", "c", "e", ",", " ", "s", "t", "o", "c", "k", "_", "q", "u", "a", "n", "t", "i", "t", "y">>, products))
    /\ pc' = "l77"
    /\ UNCHANGED << args, rows, text, raised, rng, fk,
                    customers, products, orders, order_items, payments, shipments >>

print_orders ==
    /\ pc = "l77"
    /\ out' = print(print(out, <<"\n", "-", "-", " ", "I", "n", "s", "e", "r", "t", "i", "o", "n", " ", "d", "e", "s", " ", "c", "o", "m", "m", "a", "n", "d", "e", "s">>),
                    create_sql_insert(<<"o", "r", "d", "e", "r", "s">>, <<"c", "u", "s", "t", "o", "m", "e", "r", "_", "i", "d", ",", " ", "s", "t", "a", "t", "u", "s">>, orders))
    /\ pc' = "l80"
    /\ UNCHANGED << args, rows, text, raised, rng, fk,
                    customers, products, orders, order_items, payments, shipments >>

print_order_items ==
    /\ pc = "l80"
    /\ out' = print(print(out, <<"\n", "-", "-", " ", "I", "n", "s", "e", "r", "t", "i", "o", "n", " ", "d", "e", "s", " ", "i", "t", "e", "m", "s", " ", "d", "e", " ", "c", "o", "m", "m", "a", "n", "d", "e">>),
                    create_sql_insert(<<"o", "r", "d", "e", "r", "_", "i", "t", "e", "m", "s">>,
                        <<"o", "r", "d", "e", "r", "_", "i", "d", ",", " ", "p", "r", "o", "d", "u", "c", "t", "_", "i", "d", ",", " ", "q", "u", "a", "n", "t", "i", "t", "y", ",", " ", "u", "n", "i", "t", "_", "p", "r", "i", "c", "e">>, order_items))
    /\ pc' = "l83"
    /\ UNCHANGED << args, rows, text, raised, rng, fk,
                    customers, products, orders, order_items, payments, shipments >>

\* mutant: the statement is printed without its comment line
print_payments_bare ==
    /\ pc = "l83"
    /\ out' = print(out, create_sql_insert(<<"p", "a", "y", "m", "e", "n", "t", "s">>,
                        <<"o", "r", "d", "e", "r", "_", "i", "d", ",", " ", "a", "m", "o", "u", "n", "t", ",", " ", "m", "e", "t", "h", "o", "d", ",", " ", "s", "t", "a", "t", "u", "s">>, payments))
    /\ pc' = "l86"
    /\ UNCHANGED << args, rows, text, raised, rng, fk,
                    customers, products, orders, order_items, payments, shipments >>

print_payments ==
    /\ pc = "l83"
    /\ out' = print(print(out, <<"\n", "-", "-", " ", "I", "n", "s", "e", "r", "t", "i", "o", "n", " ", "d", "e", "s", " ", "p", "a", "i", "e", "m", "e", "n", "t", "s">>),
                    create_sql_insert(<<"p", "a", "y", "m", "e", "n", "t", "s">>,
                        <<"o", "r", "d", "e", "r", "_", "i", "d", ",", " ", "a", "m", "o", "u", "n", "t", ",", " ", "m", "e", "t", "h", "o", "d", ",", " ", "s", "t", "a", "t", "u", "s">>, payments))
    /\ pc' = "l86"
    /\ UNCHANGED << args, rows, text, raised, rng, fk,
                    customers, products, orders, order_items, payments, shipments >>

print_shipments ==
    /\ pc = "l86"
    /\ out' = print(print(out, <<"\n", "-", "-", " ", "I", "n", "s", "e", "r", "t", "i", "o", "n", " ", "d", "e", "s", " ", "l", "i", "v", "r", "a", "i", "s", "o", "n", "s">>),
                    create_sql_insert(<<"s", "h", "i", "p", "m", "e", "n", "t", "s">>,
                        <<"o", "r", "d", "e", "r", "_", "i", "d", ",", " ", "d", "e", "l", "i", "v", "e", "r", "y", "_", "a", "d", "d", "r", "e", "s", "s", ",", " ", "s", "t", "a", "t", "u", "s">>, shipments))
    /\ pc' = "exit"
    /\ UNCHANGED << args, rows, text, raised, rng, fk,
                    customers, products, orders, order_items, payments, shipments >>

Next ==
    \/ call_get_customers
    \/ call_get_products
    \/ call_get_orders
    \/ call_get_order_items
    \/ call_get_payments
    \/ call_get_shipments
    \/ call_create_sql_insert
    \/ main_customers
    \/ main_products
    \/ main_ids
    \/ main_orders
    \/ main_order_items
    \/ main_payments
    \/ main_shipments
    \/ print_customers
    \/ print_products
    \/ print_orders
    \/ print_order_items
    \/ print_payments
    \/ print_shipments

Spec == Init /\ [][Next]_vars

(* ------------------------- vocabulary of the claims ------------------- *)
Elems(seq) == { seq[i] : i \in 1..Len(seq) }
Col(rs, j) == [i \in 1..Len(rs) |-> rs[i][j]]
StartsWith(s, p) == Len(s) >= Len(p) /\ SubSeq(s, 1, Len(p)) = p
EndsWith(s, p) == Len(s) >= Len(p) /\ SubSeq(s, Len(s) - Len(p) + 1, Len(s)) = p

\* the call under check has ended, by a return or by an exception
Ended == pc \in {"returned", "raised"}

\* main is past the line l: the local that line assigns holds its value
MainLines == << "l57", "l58", "l61", "l65", "l66", "l67", "l68",
                "l71", "l74", "l77", "l80", "l83", "l86", "exit" >>
LineNo(l) == CHOOSE i \in 1..Len(MainLines) : MainLines[i] = l
Past(l) == fn = "main" /\ pc \in Elems(MainLines) /\ LineNo(pc) > LineNo(l)

\* get_orders(k, cids) asks random.choice for an element of an empty list
OrdersNeedMissingCustomer == n > 0 /\ customer_ids = <<>>
\* get_order_items(oids, pids) asks random.choice for an element of an empty list
ItemsNeedMissingProduct == order_ids # <<>> /\ product_ids = <<>>

(* -------------------------------- C1 ---------------------------------- *)
\* C1 as stated: every call get_customers(n), get_products(n), get_orders(n, customer_ids)
\* returns exactly n rows, and get_payments(order_ids), get_shipments(order_ids)
\* exactly len(order_ids) rows.  Refuted by get_orders(n, []) with n > 0, which
\* returns no list at all.
C1_Original ==
    /\ (Ended /\ fn \in {"get_customers", "get_products", "get_orders"})
          => (pc = "returned" /\ Len(rows) = n)
    /\ (Ended /\ fn \in {"get_payments", "get_shipments"})
          => (pc = "returned" /\ Len(rows) = Len(order_ids))

\* C1 amended: get_customers(n) and get_products(n) return exactly n rows for every
\* n >= 0, get_orders(n, customer_ids) returns exactly n rows when n = 0 or
\* customer_ids is not empty, get_payments and get_shipments return exactly
\* len(order_ids) rows; n = 0 and an empty order_ids give the empty list; in main the
\* lists hold 10, 8, 15, 15 and 15 rows.
C1_RowCounts ==
    /\ (Ended /\ fn \in {"get_customers", "get_products"})
          => (pc = "returned" /\ Len(rows) = n)
    /\ (Ended /\ fn = "get_orders" /\ ~OrdersNeedMissingCustomer)
          => (pc = "returned" /\ Len(rows) = n)
    /\ (Ended /\ fn \in {"get_payments", "get_shipments"})
          => (pc = "returned" /\ Len(rows) = Len(order_ids))
    /\ Past("l57") => Len(customers) = num_customers
    /\ Past("l58") => Len(products) = num_products
    /\ Past("l65") => Len(orders) = num_orders
    /\ Past("l67") => Len(payments) = num_orders
    /\ Past("l68") => Len(shipments) = num_orders

C1_Witness ==
    /\ pc = "returned" /\ fn = "get_orders" /\ n > 1 /\ Len(customer_ids) > 1
    /\ Len(rows) = n

(* -------------------------------- C2 ---------------------------------- *)
\* the order_id column col, from position i on, is one run of 1 to 3 rows for
\* each id of oids, in the order of oids
RECURSIVE Grouped(_, _, _)
Grouped(col, i, oids) ==
    IF oids = <<>> THEN i = Len(col) + 1
    ELSE \E k \in 1..3 :
            /\ i + k - 1 <= Len(col)
            /\ \A j \in i..(i + k - 1) : col[j] = PyInt(Head(oids))
            /\ Grouped(col, i + k, Tail(oids))

\* C2: with a non-empty product_ids, get_order_items returns for each position of
\* order_ids a run of 1 to 3 rows carrying that order id, the runs contiguous and in
\* the order of order_ids, so between len(order_ids) and 3 * len(order_ids) rows.
C2_OrderItemGroups ==
    /\ (Ended /\ fn = "get_order_items" /\ product_ids # <<>>)
          => /\ pc = "returned"
             /\ Grouped(Col(rows, 1), 1, order_ids)
             /\ Len(rows) >= Len(order_ids) /\ Len(rows) <= 3 * Len(order_ids)
    /\ Past("l66")
          => /\ Grouped(Col(order_items, 1), 1, order_ids)
             /\ Len(order_items) >= num_orders /\ Len(order_items) <= 3 * num_orders

C2_Witness ==
    /\ pc = "returned" /\ fn = "get_order_items"
    /\ Len(order_ids) = 2 /\ order_ids[1] = order_ids[2]
    /\ Len(rows) > 3

(* -------------------------------- C3 ---------------------------------- *)
\* the first k of the texts parts, each but the first preceded by sep
RECURSIVE SepBy(_, _, _)
SepBy(sep, parts, k) ==
    IF k = 0 THEN <<>>
    ELSE SepBy(sep, parts, k - 1) \o (IF k > 1 THEN sep ELSE <<>>) \o parts[k]

\* one parenthesised group of rendered values
GroupOf(rendered) == <<"(">> \o SepBy(<<",", " ">>, rendered, Len(rendered)) \o <<")">>

\* the statement the claims describe, for rows of rendered values
StatementOf(tbl, cols, rendered_rows) ==
    <<"I", "N", "S", "E", "R", "T", " ", "I", "N", "T", "O", " ">> \o tbl \o <<" ", "(">> \o cols \o <<")", " ", "V", "A", "L", "U", "E", "S", "\n", " ", " ">>
    \o SepBy(<<",", "\n", " ", " ">>, [i \in 1..Len(rendered_rows) |-> GroupOf(rendered_rows[i])],
             Len(rendered_rows))
    \o <<";">>

ReprRows(vals) == [i \in 1..Len(vals) |-> [j \in 1..Len(vals[i]) |-> repr(vals[i][j])]]

\* C3: create_sql_insert returns "INSERT INTO <table> (<columns>) VALUES\n  ", then one
\* parenthesised group per row in input order, the groups separated by ",\n  " and the
\* values of a group by ", ", then ";"; it starts with the header and ends with ";";
\* create_sql_insert("t", "a, b", [(1, "x")]) is "INSERT INTO t (a, b) VALUES\n  (1, 'x');".
C3_InsertFormat ==
    (Ended /\ fn = "create_sql_insert")
       => /\ pc = "returned"
          /\ text = StatementOf(table, columns, ReprRows(values))
          /\ StartsWith(text, <<"I", "N", "S", "E", "R", "T", " ", "I", "N", "T", "O", " ">> \o table \o <<" ", "(">> \o columns \o <<")", " ", "V", "A", "L", "U", "E", "S">>)
          /\ text[Len(text)] = ";"
          /\ (table = <<"t">> /\ columns = <<"a", ",", " ", "b">> /\ values = << << PyInt(1), PyStr(<<"x">>) >> >>)
                => text = <<"I", "N", "S", "E", "R", "T", " ", "I", "N", "T", "O", " ", "t", " ", "(", "a", ",", " ", "b", ")", " ", "V", "A", "L", "U", "E", "S", "\n", " ", " ", "(", "1", ",", " ", "'", "x", "'", ")", ";">>

C3_Witness ==
    /\ pc = "returned" /\ fn = "create_sql_insert"
    /\ table = <<"t">> /\ columns = <<"a", ",", " ", "b">> /\ values = << << PyInt(1), PyStr(<<"x">>) >> >>
    /\ text = <<"I", "N", "S", "E", "R", "T", " ", "I", "N", "T", "O", " ", "t", " ", "(", "a", ",", " ", "b", ")", " ", "V", "A", "L", "U", "E", "S", "\n", " ", " ", "(", "1", ",", " ", "'", "x", "'", ")", ";">>

(* -------------------------------- C4 ---------------------------------- *)
\* the SQL string literal of a text: single quotes around it, each single quote
\* inside doubled; every other character, the backslash too, stands for itself
RECURSIVE sql_quote_body(_)
sql_quote_body(s) ==
    IF s = <<>> THEN <<>>
    ELSE (IF Head(s) = "'" THEN <<"'", "'">> ELSE <<Head(s)>>) \o sql_quote_body(Tail(s))

sql_literal(val) ==
    IF val.t = "str" THEN <<"'">> \o sql_quote_body(val.s) \o <<"'">>
    ELSE repr(val)

SqlRows(vals) == [i \in 1..Len(vals) |-> [j \in 1..Len(vals[i]) |-> sql_literal(vals[i][j])]]

\* the SQL scanner over a statement: in code, inside a '...' string, inside a "..."
\* identifier, after the closing semicolon, or lost
sql_step(mode, c) ==
    IF mode = "code" THEN (IF c = "'" THEN "string"
                           ELSE IF c = "\"" THEN "identifier"
                           ELSE IF c = ";" THEN "end"
                           ELSE "code")
    ELSE IF mode = "string" THEN (IF c = "'" THEN "code" ELSE "string")
    ELSE IF mode = "identifier" THEN (IF c = "\"" THEN "code" ELSE "identifier")
    ELSE "lost"

RECURSIVE sql_scan(_, _, _)
sql_scan(s, i, mode) == IF i > Len(s) THEN mode ELSE sql_scan(s, i + 1, sql_step(mode, s[i]))

\* every quote is closed and the one semicolon outside quotes is the last character
ScansAsOneStatement(s) == sql_scan(s, 1, "code") = "end"

\* C4 as stated: for a non-empty row sequence every str is rendered as a quoted and
\* escaped SQL string literal and every number unquoted, and the output scans as one
\* SQL statement whatever characters the strings hold.  Refuted: the values are
\* rendered by Python's repr.
C4_Original ==
    (pc = "returned" /\ fn = "create_sql_insert" /\ values # <<>>)
       => /\ text = StatementOf(table, columns, SqlRows(values))
          /\ ScansAsOneStatement(text)

(* -------------------------------- C5 ---------------------------------- *)
\* C5: with no rows create_sql_insert raises nothing and returns
\* "INSERT INTO <table> (<columns>) VALUES\n  ;", which holds no parenthesised group.
C5_EmptyValues ==
    (Ended /\ fn = "create_sql_insert" /\ values = <<>>)
       => /\ pc = "returned" /\ raised = NoError
          /\ text = <<"I", "N", "S", "E", "R", "T", " ", "I", "N", "T", "O", " ">> \o table \o <<" ", "(">> \o columns \o <<")", " ", "V", "A", "L", "U", "E", "S", "\n", " ", " ", ";">>
          /\ LET clause == SubSeq(text, Len(text) - 3, Len(text))
             IN  ~Has(clause, "(") /\ ~Has(clause, ")")

C5_Witness ==
    /\ pc = "returned" /\ fn = "create_sql_insert" /\ values = <<>>
    /\ table = <<"o", "r", "d", "e", "r", "s">> /\ text[Len(text)] = ";"

(* -------------------------------- C6 ---------------------------------- *)
TableNames == << <<"c", "u", "s", "t", "o", "m", "e", "r", "s">>, <<"p", "r", "o", "d", "u", "c", "t", "s">>, <<"o", "r", "d", "e", "r", "s">>, <<"o", "r", "d", "e", "r", "_", "i", "t", "e", "m", "s">>,
                 <<"p", "a", "y", "m", "e", "n", "t", "s">>, <<"s", "h", "i", "p", "m", "e", "n", "t", "s">> >>

\* what the comment lines call the tables
CommentNames == << <<"c", "l", "i", "e", "n", "t", "s">>, <<"p", "r", "o", "d", "u", "i", "t", "s">>, <<"c", "o", "m", "m", "a", "n", "d", "e", "s">>, <<"i", "t", "e", "m", "s", " ", "d", "e", " ", "c", "o", "m", "m", "a", "n", "d", "e">>,
                   <<"p", "a", "i", "e", "m", "e", "n", "t", "s">>, <<"l", "i", "v", "r", "a", "i", "s", "o", "n", "s">> >>

\* a print of one SQL comment line that ends with name, after at most one empty line
IsCommentLine(s, name) ==
    LET line == IF s # <<>> /\ Head(s) = "\n" THEN Tail(s) ELSE s
    IN  StartsWith(line, <<"-", "-", " ">>) /\ ~Has(line, "\n") /\ EndsWith(line, name)

IsInsertInto(s, tbl) == StartsWith(s, <<"I", "N", "S", "E", "R", "T", " ", "I", "N", "T", "O", " ">> \o tbl \o <<" ", "(">>) /\ s[Len(s)] = ";"

\* the prints main has done when it is at a line
PrintsAt(l) == IF LineNo(l) <= LineNo("l71") THEN 0 ELSE 2 * (LineNo(l) - LineNo("l71"))

\* C6: main writes the six statements in the order customers, products, orders,
\* order_items, payments, shipments, each right after the comment line of its table:
\* at every line the output is the comment and statement of the tables printed so
\* far, and at exit it is twelve prints, six of them INSERT statements.
C6_OutputOrder ==
    (fn = "main" /\ pc \in Elems(MainLines))
       => /\ Len(out) = PrintsAt(pc)
          /\ pc = "exit" => Len(out) = 12
          /\ \A k \in 1..6 :
                2 * k <= Len(out)
                   => /\ IsCommentLine(out[2 * k - 1], CommentNames[k])
                      /\ IsInsertInto(out[2 * k], TableNames[k])
                      /\ ~StartsWith(out[2 * k - 1], <<"I", "N", "S", "E", "R", "T", " ", "I", "N", "T", "O", " ">>)

C6_Witness ==
    /\ pc = "exit" /\ Len(out) = 12
    /\ IsInsertInto(out[12], <<"s", "h", "i", "p", "m", "e", "n", "t", "s">>) /\ IsInsertInto(out[2], <<"c", "u", "s", "t", "o", "m", "e", "r", "s">>)

(* -------------------------------- C7 ---------------------------------- *)
\* C7 as stated: no generator raises, whatever n >= 0 and whatever id lists it is
\* given.  Refuted by get_orders(n, []) with n > 0 and by get_order_items(order_ids, [])
\* with a non-empty order_ids.
C7_Original ==
    fn \in {"get_customers", "get_products", "get_orders", "get_order_items",
            "get_payments", "get_shipments"} => pc # "raised"

\* C7 amended: get_customers, get_products, get_payments and get_shipments never
\* raise; get_orders raises (IndexError) exactly when n > 0 and customer_ids is empty;
\* get_order_items raises (IndexError) exactly when order_ids is not empty and
\* product_ids is empty; main, whose id lists are not empty, never raises.
C7_RaisesOnlyOnEmptyIds ==
    /\ pc = "raised"
          => /\ raised = IndexError
             /\ \/ fn = "get_orders" /\ OrdersNeedMissingCustomer
                \/ fn = "get_order_items" /\ ItemsNeedMissingProduct
    /\ pc = "returned"
          => /\ raised = NoError
             /\ ~(fn = "get_orders" /\ OrdersNeedMissingCustomer)
             /\ ~(fn = "get_order_items" /\ ItemsNeedMissingProduct)
    /\ fn = "main" => raised = NoError

C7_Witness ==
    /\ pc = "returned" /\ fn = "get_order_items"
    /\ Len(order_ids) > 1 /\ Len(product_ids) > 1 /\ raised = NoError

(* -------------------------------- C8 ---------------------------------- *)
\* the i-th row carries the i-th order id
OneRowPerOrder(rs, oids) ==
    /\ Len(rs) = Len(oids)
    /\ \A i \in 1..Len(oids) : rs[i][1] = PyInt(oids[i])

\* each id of 1..k is the order id of exactly one row
EachOnce(rs, k) ==
    \A id \in 1..k : Cardinality({ i \in 1..Len(rs) : rs[i][1] = PyInt(id) }) = 1

\* C8: the i-th row of get_payments(order_ids) and of get_shipments(order_ids) carries
\* order_ids[i]; in main every order id of 1..15 is in exactly one payment row and in
\* exactly one shipment row.
C8_OneRowPerOrder ==
    /\ (Ended /\ fn \in {"get_payments", "get_shipments"})
          => (pc = "returned" /\ OneRowPerOrder(rows, order_ids))
    /\ Past("l67") => (OneRowPerOrder(payments, order_ids) /\ EachOnce(payments, num_orders))
    /\ Past("l68") => (OneRowPerOrder(shipments, order_ids) /\ EachOnce(shipments, num_orders))

C8_Witness ==
    /\ pc = "exit" /\ Len(payments) = num_orders /\ Len(shipments) = num_orders
    /\ payments[num_orders][1] = PyInt(num_orders)

(* -------------------------------- C9 ---------------------------------- *)
InRange(val, type, lo, hi) == val.t = type /\ val.n >= lo /\ val.n <= hi

ProductInBounds(r) == InRange(r[3], "float", 100, 9999) /\ InRange(r[4], "int", 1, 20)
ItemInBounds(r) == InRange(r[3], "int", 1, 5) /\ InRange(r[4], "float", 500, 2000)
PaymentInBounds(r) == InRange(r[2], "float", 1000, 5000)

\* C9: in cents, a product's price is 100..9999 and its stock_quantity an int of 1..20;
\* an order item's quantity is an int of 1..5 and its unit_price 500..2000; a payment's
\* amount is 1000..5000.
C9_NumericBounds ==
    /\ (pc = "returned" /\ fn = "get_products")
          => \A i \in 1..Len(rows) : ProductInBounds(rows[i])
    /\ (pc = "returned" /\ fn = "get_order_items")
          => \A i \in 1..Len(rows) : ItemInBounds(rows[i])
    /\ (pc = "returned" /\ fn = "get_payments")
          => \A i \in 1..Len(rows) : PaymentInBounds(rows[i])
    /\ \A i \in 1..Len(products) : ProductInBounds(products[i])
    /\ \A i \in 1..Len(order_items) : ItemInBounds(order_items[i])
    /\ \A i \in 1..Len(payments) : PaymentInBounds(payments[i])

C9_Witness ==
    /\ pc = "returned" /\ fn = "get_products" /\ Len(rows) > 1
    /\ rows[1][3].n = 9999 /\ rows[1][4].n = 20
    /\ rows[2][3].n = 100

(* -------------------------------- C10 --------------------------------- *)
OrderRefers(r, cids) == r[1].t = "int" /\ r[1].n \in Elems(cids) /\ r[2] = PyStr(<<"p", "e", "n", "d", "i", "n", "g">>)
ItemRefers(r, oids, pids) ==
    /\ r[1].t = "int" /\ r[1].n \in Elems(oids)
    /\ r[2].t = "int" /\ r[2].n \in Elems(pids)

\* C10: an order row has its customer_id in customer_ids and the status 'pending'; an
\* order item row has its order_id in order_ids and its product_id in product_ids; in
\* main every customer_id is in 1..10, every product_id in 1..8 and every order_id of
\* the order items, payments and shipments in 1..15.
C10_ForeignKeys ==
    /\ (pc = "returned" /\ fn = "get_orders")
          => \A i \in 1..Len(rows) : OrderRefers(rows[i], customer_ids)
    /\ (pc = "returned" /\ fn = "get_order_items")
          => \A i \in 1..Len(rows) : ItemRefers(rows[i], order_ids, product_ids)
    /\ \A i \in 1..Len(orders) : OrderRefers(orders[i], range1(10))
    /\ \A i \in 1..Len(order_items) : ItemRefers(order_items[i], range1(15), range1(8))
    /\ \A i \in 1..Len(payments) : payments[i][1].n \in 1..15
    /\ \A i \in 1..Len(shipments) : shipments[i][1].n \in 1..15

C10_Witness ==
    /\ pc = "exit"
    /\ \E i \in 1..Len(orders) : orders[i][1].n = 10
    /\ \E i \in 1..Len(order_items) : order_items[i][2].n = 8
    /\ \E i \in 1..Len(order_items) : order_items[i][1].n = 15

=============================================================================
